---- MODULE Spec2Model ----
(***************************************************************************)
(* A model of the ABN bulk-extract pipeline of abn_extract/assets.py:      *)
(* the normalizer generate_bulk_insert, the deduplicator                   *)
(* remove_duplicates, the store operations delete_records and bulk_insert  *)
(* over the tables of postgres_table_creation.py, the per-file driver      *)
(* process_files and the job extract_and_load.                             *)
(***************************************************************************)
EXTENDS Integers, Sequences, FiniteSets, TLC

VARIABLES
    archive,     \* what download_files extracts: file name -> sequence of lines
    directory,   \* the data directory: file name -> sequence of lines
    store,       \* the committed content of the seven tables
    store0,      \* history: the committed store when the current run started
    run,         \* which execution of the job this is
    purgePc,     \* step delete_records: "pending" | "done" | "failed"
    pfPc,        \* chain scrape/download/process_files, see PfPcs
    todo,        \* names os.listdir returned that the loop has not reached
    cur,         \* <<>> or <<name>>: the file the loop body is handling
    lineNo,      \* lines of the current file already read
    records,     \* the per-file accumulator of process_files
    pfError,     \* [exc, stage]: the exception that ended process_files, and where
    submitted,   \* history: the batches handed to bulk_insert in this run, in order
    issued,      \* history: the INSERT statements each load of this run issued
    purged,      \* history: whether delete_records removed rows loaded in this run
    afterRun,    \* history: <<store>> as the first run left it if complete, else <<>>
    removed,     \* history: the files os.remove deleted in this run
    fnIn,        \* the argument of the function under test (function specs)
    fnOut        \* its result, <<>> until applied

vars == <<archive, directory, store, store0, run, purgePc, pfPc, todo, cur,
          lineNo, records, pfError, submitted, issued, purged, afterRun,
          removed, fnIn, fnOut>>

pipelineVars == <<archive, directory, store, store0, run, purgePc, pfPc, todo,
                  cur, lineNo, records, pfError, submitted, issued, purged,
                  afterRun, removed>>

-----------------------------------------------------------------------------
(* Bounds of the model.                                                    *)

MaxLines == 2        \* lines of the archive, over all its files
MaxLen == 3          \* length of a list given to remove_duplicates
MaxPostcodeLen == 2  \* characters of a postcode text

-----------------------------------------------------------------------------
(* Python values.  A value carries its type: int, str or date.  A text that *)
(* the code parses with int() is a sequence of characters.                 *)

PyInt(n) == <<"int", n>>
PyStr(s) == <<"str", s>>
PyDate(s) == <<"date", s>>

\* bool(v) for the values a row holds: 0 and '' are falsy, a date is truthy.
Truthy(v) ==
    CASE v[1] = "int" -> v[2] # 0
      [] v[1] = "str" -> v[2] # ""
      [] OTHER -> TRUE

Digits == <<"0", "1", "2", "3", "4", "5", "6", "7", "8", "9">>

IsDigit(c) == \E i \in 1..Len(Digits) : Digits[i] = c

DigitVal(c) == (CHOOSE i \in 1..Len(Digits) : Digits[i] = c) - 1

IsSpace(c) == c = " "

RECURSIVE LStrip(_)
LStrip(s) == IF s # <<>> /\ IsSpace(Head(s)) THEN LStrip(Tail(s)) ELSE s

RECURSIVE RStrip(_)
RStrip(s) ==
    IF s # <<>> /\ IsSpace(s[Len(s)]) THEN RStrip(SubSeq(s, 1, Len(s) - 1)) ELSE s

Strip(s) == RStrip(LStrip(s))

RECURSIVE DecVal(_)
DecVal(s) ==
    IF s = <<>> THEN 0
    ELSE 10 * DecVal(SubSeq(s, 1, Len(s) - 1)) + DigitVal(s[Len(s)])

\* int(text): surrounding whitespace is ignored; anything but a non-empty run
\* of decimal digits raises ValueError.
PyIntOf(text) ==
    LET t == Strip(text)
    IN  IF t # <<>> /\ \A i \in 1..Len(t) : IsDigit(t[i])
        THEN [exc |-> "", val |-> DecVal(t)]
        ELSE [exc |-> "ValueError", val |-> 0]

\* text or '0'
OrZero(text) == IF text = <<>> THEN <<"0">> ELSE text

\* datetime.strptime(s, '%Y%m%d').date()
StrpDate(s) == PyDate(s)

\* element_handle: the text of an element, '' when the element is absent.
element_handle(input) == IF input = <<>> THEN "" ELSE input[1]

-----------------------------------------------------------------------------
(* The relational schema of postgres_table_creation.py.                    *)

Kinds == {"abn", "main_entity", "legal_entity", "asic_number", "gst", "dgr",
          "other_entity"}

ChildKinds == Kinds \ {"abn"}

\* The primary-key columns of each table.
PrimaryKey(kind) ==
    CASE kind = "abn" -> {"abn"}
      [] kind = "dgr" -> {"abn_id", "status_from_date", "name"}
      [] kind = "other_entity" -> {"abn_id", "other_entity_type", "other_entity_name"}
      [] OTHER -> {"abn_id"}

KeyOf(kind, row) == [c \in PrimaryKey(kind) |-> row[c]]

EmptyStore == [k \in Kinds |-> {}]

-----------------------------------------------------------------------------
(* A fragment is one line as BeautifulSoup parses it.  An element or       *)
(* attribute that may be absent is a sequence of length 0 or 1:            *)
(*   abr    whether the line has an ABR element                            *)
(*   abn    <<>> or <<[text, status, date]>>, status and date optional     *)
(*   etype  <<>> or <<[ind, text]>>                                        *)
(*   main   <<>> or <<[type, name, state, postcode]>>                      *)
(*   legal  <<>> or <<[type, given, family, state, postcode]>>, given      *)
(*          optional                                                       *)
(*   asic   <<>> or <<[number, type]>>                                     *)
(*   gst    <<>> or <<[status, date]>>                                     *)
(*   dgr    the DGR elements, each [date, name]                            *)
(*   other  the OtherEntity elements, each [type, name]                    *)
(* The children of an optional block other than GivenName are present.     *)

\* The exception the required fields raise, "" when they are all there.
RequiredExc(f) ==
    IF f.abn = <<>> THEN "AttributeError"
    ELSE IF PyIntOf(f.abn[1].text).exc # "" THEN "ValueError"
    ELSE IF f.abn[1].status = <<>> THEN "KeyError"
    ELSE IF f.abn[1].date = <<>> THEN "KeyError"
    ELSE IF f.etype = <<>> THEN "AttributeError"
    ELSE ""

AbnId(f) == PyInt(PyIntOf(f.abn[1].text).val)

AbnRow(f) ==
    [abn |-> AbnId(f),
     abn_status |-> PyStr(f.abn[1].status[1]),
     abn_status_from_date |-> StrpDate(f.abn[1].date[1]),
     entity_type_indicator |-> PyStr(f.etype[1].ind),
     entity_type_text |-> PyStr(f.etype[1].text)]

\* AddressPostcode with a fault: the except ValueError clause is missing.
AddressPostcodeNoExcept(text) == PyIntOf(OrZero(text))

\* address_postcode: int(text or '0'), and int('0') when that raises ValueError.
AddressPostcode(text) ==
    LET r == PyIntOf(OrZero(text))
    IN  IF r.exc = "ValueError" THEN PyIntOf(<<"0">>) ELSE r

MainEntityRow(f) ==
    [abn_id |-> AbnId(f),
     main_entity_type |-> PyStr(f.main[1].type),
     main_entity_name |-> PyStr(f.main[1].name),
     address_state |-> PyStr(f.main[1].state),
     address_postcode |-> PyInt(AddressPostcode(f.main[1].postcode).val)]

LegalEntityRow(f) ==
    [abn_id |-> AbnId(f),
     legal_entity_type |-> PyStr(f.legal[1].type),
     legal_entity_name |->
         PyStr(element_handle(f.legal[1].given) \o " " \o f.legal[1].family),
     address_state |-> PyStr(f.legal[1].state),
     address_postcode |-> PyInt(AddressPostcode(f.legal[1].postcode).val)]

ASICNumberRow(f) ==
    [abn_id |-> AbnId(f),
     asic_number |-> PyStr(f.asic[1].number),
     asic_type |-> PyStr(f.asic[1].type)]

GSTRow(f) ==
    [abn_id |-> AbnId(f),
     status |-> PyStr(f.gst[1].status),
     status_from_date |-> StrpDate(f.gst[1].date)]

DGRRow(f, e) ==
    [abn_id |-> AbnId(f),
     status_from_date |-> StrpDate(e.date),
     name |-> PyStr(e.name)]

OtherEntityRow(f, e) ==
    [abn_id |-> AbnId(f),
     other_entity_type |-> PyStr(e.type),
     other_entity_name |-> PyStr(e.name)]

\* The exception the optional blocks raise, "" when there is none.
BlockExc(f) ==
    IF f.main # <<>> /\ AddressPostcode(f.main[1].postcode).exc # ""
    THEN AddressPostcode(f.main[1].postcode).exc
    ELSE IF f.legal # <<>> /\ AddressPostcode(f.legal[1].postcode).exc # ""
    THEN AddressPostcode(f.legal[1].postcode).exc
    ELSE ""

\* generate_bulk_insert: [exc, ret]; ret maps each entity kind the fragment
\* has to its rows, and is <<>> when the call raises exc.
generate_bulk_insert(f) ==
    IF RequiredExc(f) # "" THEN [exc |-> RequiredExc(f), ret |-> <<>>]
    ELSE IF BlockExc(f) # "" THEN [exc |-> BlockExc(f), ret |-> <<>>]
    ELSE
      LET present ==
              {"abn"}
              \cup (IF f.main # <<>> THEN {"main_entity"} ELSE {})
              \cup (IF f.legal # <<>> THEN {"legal_entity"} ELSE {})
              \cup (IF f.asic # <<>> THEN {"asic_number"} ELSE {})
              \cup (IF f.gst # <<>> THEN {"gst"} ELSE {})
              \cup (IF f.dgr # <<>> THEN {"dgr"} ELSE {})
              \cup (IF f.other # <<>> THEN {"other_entity"} ELSE {})
      IN  [exc |-> "",
           ret |-> [k \in present |->
               CASE k = "abn" -> <<AbnRow(f)>>
                 [] k = "main_entity" -> <<MainEntityRow(f)>>
                 [] k = "legal_entity" -> <<LegalEntityRow(f)>>
                 [] k = "asic_number" -> <<ASICNumberRow(f)>>
                 [] k = "gst" -> <<GSTRow(f)>>
                 [] k = "dgr" -> [i \in 1..Len(f.dgr) |-> DGRRow(f, f.dgr[i])]
                 [] OTHER -> [i \in 1..Len(f.other) |-> OtherEntityRow(f, f.other[i])]]]

-----------------------------------------------------------------------------
(* remove_duplicates.                                                      *)

\* Every column name, in the order sorted() puts the keys of a row.
ColumnOrder ==
    <<"abn", "abn_id", "abn_status", "abn_status_from_date", "address_postcode",
      "address_state", "asic_number", "asic_type", "entity_type_indicator",
      "entity_type_text", "legal_entity_name", "legal_entity_type",
      "main_entity_name", "main_entity_type", "name", "other_entity_name",
      "other_entity_type", "status", "status_from_date">>

\* tuple(sorted(d.items()))
SortedItems(d) ==
    LET keys == SelectSeq(ColumnOrder, LAMBDA k : k \in DOMAIN d)
    IN  [i \in 1..Len(keys) |-> <<keys[i], d[keys[i]]>>]

\* dict(items)
DictOf(items) ==
    [k \in {items[i][1] : i \in 1..Len(items)} |->
        (items[CHOOSE i \in 1..Len(items) : items[i][1] = k])[2]]

\* any(d.values())
AnyValue(d) == \E k \in DOMAIN d : Truthy(d[k])

Range(s) == {s[i] : i \in 1..Len(s)}

\* The lists that hold each element of S once.
Orderings(S) ==
    {s \in [1..Cardinality(S) -> S] : \A i, j \in 1..Cardinality(S) : i # j => s[i] # s[j]}

\* remove_duplicates with a fault: the any() filter is missing.
remove_duplicates_NoFilter(dictionaries) ==
    Orderings({DictOf(items) : items \in {SortedItems(d) : d \in Range(dictionaries)}})

\* remove_duplicates: the lists the call may return.  The result is built
\* from a Python set, whose iteration order is unspecified.
remove_duplicates(dictionaries) ==
    LET unique_dictionaries ==
            {SortedItems(d) : d \in {e \in Range(dictionaries) : AnyValue(e)}}
    IN  Orderings({DictOf(items) : items \in unique_dictionaries})

-----------------------------------------------------------------------------
(* The store: delete_records and bulk_insert, each one Session, that is    *)
(* one transaction: the statements act on a working copy tx of the store,  *)
(* session.commit() makes it the store, and an exception leaves the with   *)
(* block without a commit, which rolls the transaction back.               *)
(* A statement raises IntegrityError when it breaks a primary or foreign   *)
(* key, and OperationalError when the database fails under it: faultAt is  *)
(* the statement (the commit counting as the last) at which it does, 0 for *)
(* a run of the session without such a fault.                              *)

\* The statements of delete_records, in order.
DeleteOrder ==
    <<"main_entity", "legal_entity", "asic_number", "gst", "dgr", "other_entity",
      "abn">>

\* InsertOrder with a fault: the dependent tables first, as in delete_records.
InsertOrderChildrenFirst == DeleteOrder

\* The statements of bulk_insert, in order.
InsertOrder ==
    <<"abn", "main_entity", "legal_entity", "asic_number", "gst", "dgr",
      "other_entity">>

\* The choices of faultAt: no fault, or a statement of the session, the
\* commit counting as the last.
Faults == 0..(Len(InsertOrder) + 1)

\* session.execute(delete(Table)): every row of the table goes; a row of abn
\* that a dependent row still references cannot.
DeleteStmt(tx, kind) ==
    IF kind = "abn" /\ \E c \in ChildKinds : tx[c] # {}
    THEN [exc |-> "IntegrityError", tx |-> tx]
    ELSE [exc |-> "", tx |-> [tx EXCEPT ![kind] = {}]]

\* session.execute(insert(Table), rows)
InsertStmt(tx, kind, rows) ==
    LET keys == {KeyOf(kind, r) : r \in tx[kind]}
        dupl == \/ \E i \in 1..Len(rows) : KeyOf(kind, rows[i]) \in keys
                \/ \E i, j \in 1..Len(rows) :
                       i # j /\ KeyOf(kind, rows[i]) = KeyOf(kind, rows[j])
        orphan == /\ kind # "abn"
                  /\ \E i \in 1..Len(rows) :
                         rows[i].abn_id \notin {r.abn : r \in tx["abn"]}
    IN  IF dupl \/ orphan
        THEN [exc |-> "IntegrityError", tx |-> tx]
        ELSE [exc |-> "", tx |-> [tx EXCEPT ![kind] = @ \cup Range(rows)]]

RECURSIVE Deletes(_, _, _)
Deletes(tx, i, faultAt) ==
    IF faultAt = i THEN [exc |-> "OperationalError", tx |-> tx]
    ELSE IF i > Len(DeleteOrder) THEN [exc |-> "", tx |-> tx]
    ELSE LET r == DeleteStmt(tx, DeleteOrder[i])
         IN  IF r.exc # "" THEN r ELSE Deletes(r.tx, i + 1, faultAt)

\* delete_records over the committed store st: [exc, store].
delete_records(st, faultAt) ==
    LET r == Deletes(st, 1, faultAt)
    IN  [exc |-> r.exc, store |-> IF r.exc = "" THEN r.tx ELSE st]

RECURSIVE Inserts(_, _, _, _)
Inserts(tx, batch, i, faultAt) ==
    IF i > Len(InsertOrder)
    THEN [exc |-> IF faultAt = i THEN "OperationalError" ELSE "",
          tx |-> tx, issued |-> <<>>]
    ELSE IF faultAt = i
    THEN [exc |-> "OperationalError", tx |-> tx, issued |-> <<InsertOrder[i]>>]
    ELSE LET kind == InsertOrder[i]
             r == InsertStmt(tx, kind, batch[kind])
         IN  IF r.exc # ""
             THEN [exc |-> r.exc, tx |-> tx, issued |-> <<kind>>]
             ELSE LET rest == Inserts(r.tx, batch, i + 1, faultAt)
                  IN  [rest EXCEPT !.issued = <<kind>> \o @]

\* bulk_insert over the committed store st: [exc, store, issued], issued the
\* tables of the INSERT statements it executed, in order.
bulk_insert(st, batch, faultAt) ==
    LET r == Inserts(st, batch, 1, faultAt)
    IN  [exc |-> r.exc, store |-> IF r.exc = "" THEN r.tx ELSE st,
         issued |-> r.issued]

-----------------------------------------------------------------------------
(* The input: the lines a file of the extract may hold.                    *)

NoLine ==
    [abr |-> FALSE, abn |-> <<>>, etype |-> <<>>, main |-> <<>>, legal |-> <<>>,
     asic |-> <<>>, gst |-> <<>>, dgr |-> <<>>, other |-> <<>>]

\* A line that is no record: it has no ABR element.
LineNoise == NoLine

\* A record without its ABN element.
LineNoAbn ==
    [NoLine EXCEPT !.abr = TRUE,
                   !.etype = <<[ind |-> "PRV", text |-> "Private Company"]>>]

\* A company: blank postcode, the same DGR entry twice, two names.
LineCompany ==
    [abr |-> TRUE,
     abn |-> <<[text |-> <<"1">>, status |-> <<"ACT">>, date |-> <<"20000101">>]>>,
     etype |-> <<[ind |-> "PRV", text |-> "Private Company"]>>,
     main |-> <<[type |-> "MN", name |-> "ACME", state |-> "NSW", postcode |-> <<>>]>>,
     legal |-> <<>>,
     asic |-> <<[number |-> "000000019", type |-> "undetermined"]>>,
     gst |-> <<[status |-> "ACT", date |-> "20000701"]>>,
     dgr |-> <<[date |-> "20010101", name |-> "ACME FUND"],
               [date |-> "20010101", name |-> "ACME FUND"]>>,
     other |-> <<>>]

\* A sole trader: no given name, a postcode that is no number, two equal and
\* one other trading name.
LineTrader ==
    [abr |-> TRUE,
     abn |-> <<[text |-> <<"2">>, status |-> <<"CAN">>, date |-> <<"20100101">>]>>,
     etype |-> <<[ind |-> "IND", text |-> "Individual/Sole Trader"]>>,
     main |-> <<>>,
     legal |-> <<[type |-> "LGL", given |-> <<>>, family |-> "CITIZEN",
                  state |-> "VIC", postcode |-> <<"a", "b">>]>>,
     asic |-> <<>>,
     gst |-> <<>>,
     dgr |-> <<>>,
     other |-> <<[type |-> "TRD", name |-> "SHOP"], [type |-> "TRD", name |-> "SHOP"],
                 [type |-> "BN", name |-> "STORE"]>>]

Lines == {LineNoise, LineNoAbn, LineCompany, LineTrader}

SeqsUpTo(S, n) == UNION {[1..m -> S] : m \in 0..n}

\* The names of the files of the archive.
FileNames == {"a.xml", "b.xml"}

RECURSIVE TotalLen(_, _)
TotalLen(a, names) ==
    IF names = {} THEN 0
    ELSE LET n == CHOOSE m \in names : TRUE
         IN  Len(a[n]) + TotalLen(a, names \ {n})

\* The archives: no file, one file or both, of up to MaxLines lines in all.
Archives ==
    UNION {{a \in [names -> SeqsUpTo(Lines, MaxLines)] : TotalLen(a, names) <= MaxLines} :
           names \in {{}, {"a.xml"}, FileNames}}

NoRecords == [k \in Kinds |-> <<>>]

NoError == [exc |-> "", stage |-> ""]

-----------------------------------------------------------------------------
(* The job extract_and_load.  Its two branches, delete_records and the     *)
(* chain return_url -> scrape_abn_website -> download_files ->             *)
(* process_files, share no input or output, so the job declares no order   *)
(* between them: each step of the chain and delete_records may come in any *)
(* order.                                                                  *)

PfPcs == {"download", "listdir", "next", "scan", "remove", "done", "failed"}

Init ==
    /\ archive \in Archives
    /\ directory = <<>>
    /\ store = EmptyStore
    /\ store0 = EmptyStore
    /\ run = "first"
    /\ purgePc = "pending"
    /\ pfPc = "download"
    /\ todo = {}
    /\ cur = <<>>
    /\ lineNo = 0
    /\ records = NoRecords
    /\ pfError = NoError
    /\ submitted = <<>>
    /\ issued = <<>>
    /\ purged = FALSE
    /\ afterRun = <<>>
    /\ removed = {}
    /\ fnIn = <<>>
    /\ fnOut = <<>>

\* Whether a load of this run has committed rows.
Loaded ==
    \E i \in 1..Len(issued) :
        issued[i].exc = "" /\ \E k \in Kinds : submitted[i][k] # <<>>

\* The step delete_records.
DeleteRecords ==
    /\ purgePc = "pending"
    /\ \E faultAt \in Faults :
         LET r == delete_records(store, faultAt)
         IN  /\ store' = r.store
             /\ purgePc' = IF r.exc = "" THEN "done" ELSE "failed"
             /\ purged' = (r.exc = "" /\ Loaded)
    /\ UNCHANGED <<archive, directory, store0, run, pfPc, todo, cur, lineNo,
                   records, pfError, submitted, issued, afterRun, removed,
                   fnIn, fnOut>>

\* The steps scrape_abn_website and download_files: every file of the
\* archive is written to the data directory, over a file of its name.
DownloadFiles ==
    /\ pfPc = "download"
    /\ directory' = [n \in DOMAIN directory \cup DOMAIN archive |->
                        IF n \in DOMAIN archive THEN archive[n] ELSE directory[n]]
    /\ pfPc' = "listdir"
    /\ UNCHANGED <<archive, store, store0, run, purgePc, todo, cur, lineNo,
                   records, pfError, submitted, issued, purged, afterRun,
                   removed, fnIn, fnOut>>

\* process_files: os.listdir(directory).
ListDir ==
    /\ pfPc = "listdir"
    /\ todo' = DOMAIN directory
    /\ pfPc' = "next"
    /\ UNCHANGED <<archive, directory, store, store0, run, purgePc, cur, lineNo,
                   records, pfError, submitted, issued, purged, afterRun,
                   removed, fnIn, fnOut>>

\* process_files: the loop takes the next name, in the order the file system
\* gave, opens the file and empties records; or the loop ends.
NextFile ==
    /\ pfPc = "next"
    /\ IF todo = {}
       THEN /\ pfPc' = "done"
            /\ UNCHANGED <<todo, cur, lineNo, records>>
       ELSE \E f \in todo :
              /\ todo' = todo \ {f}
              /\ cur' = <<f>>
              /\ lineNo' = 0
              /\ records' = NoRecords
              /\ pfPc' = "scan"
    /\ UNCHANGED <<archive, directory, store, store0, run, purgePc, pfError,
                   submitted, issued, purged, afterRun, removed, fnIn, fnOut>>

\* records after the rows of one fragment are appended.
Accumulate(recs, ret) ==
    [k \in DOMAIN recs |-> IF k \in DOMAIN ret THEN recs[k] \o ret[k] ELSE recs[k]]

\* process_files: one line of the open file.
ScanLine ==
    /\ pfPc = "scan"
    /\ lineNo < Len(directory[cur[1]])
    /\ LET line == directory[cur[1]][lineNo + 1]
           r == generate_bulk_insert(line)
       IN  /\ lineNo' = lineNo + 1
           /\ IF ~line.abr
              THEN UNCHANGED <<records, pfPc, pfError>>
              ELSE IF r.exc # ""
              THEN /\ pfPc' = "failed"
                   /\ pfError' = [exc |-> r.exc, stage |-> "generate_bulk_insert"]
                   /\ UNCHANGED records
              ELSE /\ records' = Accumulate(records, r.ret)
                   /\ UNCHANGED <<pfPc, pfError>>
    /\ UNCHANGED <<archive, directory, store, store0, run, purgePc, todo, cur,
                   submitted, issued, purged, afterRun, removed, fnIn, fnOut>>

\* BulkInsert with a fault: the file is removed before its batch is loaded.
BulkInsertAfterRemove ==
    /\ pfPc = "scan"
    /\ lineNo = Len(directory[cur[1]])
    /\ \E dgr \in remove_duplicates(records["dgr"]),
          other_entity \in remove_duplicates(records["other_entity"]),
          faultAt \in Faults :
         LET batch == [records EXCEPT !["dgr"] = dgr,
                                      !["other_entity"] = other_entity]
             r == bulk_insert(store, batch, faultAt)
         IN  /\ submitted' = Append(submitted, batch)
             /\ issued' = Append(issued, [exc |-> r.exc, kinds |-> r.issued])
             /\ store' = r.store
             /\ IF r.exc = ""
                THEN pfPc' = "remove" /\ UNCHANGED pfError
                ELSE /\ pfPc' = "failed"
                     /\ pfError' = [exc |-> r.exc, stage |-> "bulk_insert"]
    /\ directory' = [n \in DOMAIN directory \ {cur[1]} |-> directory[n]]
    /\ UNCHANGED <<archive, store0, run, purgePc, todo, cur, lineNo,
                   records, purged, afterRun, removed, fnIn, fnOut>>

\* process_files: at the end of the file, the call of bulk_insert.
BulkInsert ==
    /\ pfPc = "scan"
    /\ lineNo = Len(directory[cur[1]])
    /\ \E dgr \in remove_duplicates(records["dgr"]),
          other_entity \in remove_duplicates(records["other_entity"]),
          faultAt \in Faults :
         LET batch == [records EXCEPT !["dgr"] = dgr,
                                      !["other_entity"] = other_entity]
             r == bulk_insert(store, batch, faultAt)
         IN  /\ submitted' = Append(submitted, batch)
             /\ issued' = Append(issued, [exc |-> r.exc, kinds |-> r.issued])
             /\ store' = r.store
             /\ IF r.exc = ""
                THEN pfPc' = "remove" /\ UNCHANGED pfError
                ELSE /\ pfPc' = "failed"
                     /\ pfError' = [exc |-> r.exc, stage |-> "bulk_insert"]
    /\ UNCHANGED <<archive, directory, store0, run, purgePc, todo, cur, lineNo,
                   records, purged, afterRun, removed, fnIn, fnOut>>

\* RemoveFile with a fault: a file that gave no record is left in place.
RemoveFileIfRecords ==
    /\ pfPc = "remove"
    /\ directory' = IF records["abn"] = <<>> THEN directory
                    ELSE [n \in DOMAIN directory \ {cur[1]} |-> directory[n]]
    /\ removed' = IF records["abn"] = <<>> THEN removed ELSE removed \cup {cur[1]}
    /\ pfPc' = "next"
    /\ UNCHANGED <<archive, store, store0, run, purgePc, todo, cur, lineNo,
                   records, pfError, submitted, issued, purged, afterRun, fnIn,
                   fnOut>>

\* process_files: os.remove(file_path).
RemoveFile ==
    /\ pfPc = "remove"
    /\ directory' = [n \in DOMAIN directory \ {cur[1]} |-> directory[n]]
    /\ removed' = removed \cup {cur[1]}
    /\ pfPc' = "next"
    /\ UNCHANGED <<archive, store, store0, run, purgePc, todo, cur, lineNo,
                   records, pfError, submitted, issued, purged, afterRun, fnIn,
                   fnOut>>

\* Both branches of the job have ended.
RunEnded == purgePc # "pending" /\ pfPc \in {"done", "failed"}

RunComplete == purgePc = "done" /\ pfPc = "done"

\* The job is executed again, over the same archive.
StartRun ==
    /\ RunEnded
    /\ run = "first"
    /\ run' = "second"
    /\ afterRun' = IF RunComplete THEN <<store>> ELSE <<>>
    /\ store0' = store
    /\ purgePc' = "pending"
    /\ pfPc' = "download"
    /\ todo' = {}
    /\ cur' = <<>>
    /\ lineNo' = 0
    /\ records' = NoRecords
    /\ pfError' = NoError
    /\ submitted' = <<>>
    /\ issued' = <<>>
    /\ purged' = FALSE
    /\ removed' = {}
    /\ UNCHANGED <<archive, directory, store, fnIn, fnOut>>

Next ==
    \/ DeleteRecords
    \/ DownloadFiles
    \/ ListDir
    \/ NextFile
    \/ ScanLine
    \/ BulkInsert
    \/ RemoveFile
    \/ StartRun

Spec == Init /\ [][Next]_vars

-----------------------------------------------------------------------------
(* The functions on their own: remove_duplicates and generate_bulk_insert  *)
(* applied to every input of a bounded set.  The pipeline is at rest.      *)

AtRest ==
    /\ archive = <<>>
    /\ directory = <<>>
    /\ store = EmptyStore
    /\ store0 = EmptyStore
    /\ run = "first"
    /\ purgePc = "done"
    /\ pfPc = "done"
    /\ todo = {}
    /\ cur = <<>>
    /\ lineNo = 0
    /\ records = NoRecords
    /\ pfError = NoError
    /\ submitted = <<>>
    /\ issued = <<>>
    /\ purged = FALSE
    /\ afterRun = <<>>
    /\ removed = {}

\* Rows of other_entity and of dgr over small columns, the falsy values 0 and
\* '' among them.
OtherEntityRows ==
    [abn_id : {PyInt(0), PyInt(1)},
     other_entity_type : {PyStr(""), PyStr("TRD")},
     other_entity_name : {PyStr(""), PyStr("SHOP")}]

DGRRows ==
    [abn_id : {PyInt(0), PyInt(1)},
     status_from_date : {StrpDate("20010101")},
     name : {PyStr(""), PyStr("ACME FUND")}]

DedupInputs == SeqsUpTo(OtherEntityRows, MaxLen) \cup SeqsUpTo(DGRRows, MaxLen)

InitDedup ==
    /\ AtRest
    /\ fnIn \in {[fn |-> "remove_duplicates", arg |-> l] : l \in DedupInputs}
    /\ fnOut = <<>>

ApplyRemoveDuplicates ==
    /\ fnOut = <<>>
    /\ fnIn.fn = "remove_duplicates"
    /\ \E out \in remove_duplicates(fnIn.arg) : fnOut' = <<out>>
    /\ UNCHANGED <<fnIn, pipelineVars>>

NextDedup == ApplyRemoveDuplicates

SpecDedup == InitDedup /\ [][NextDedup]_vars

\* The characters and the texts of a Postcode element.
PostcodeChars == {"2", "a", " "}

PostcodeTexts == SeqsUpTo(PostcodeChars, MaxPostcodeLen)

\* Fragments with or without their ABN element, with or without a MainEntity
\* and a LegalEntity block, over every postcode text.
NormalizeInputs ==
    {[LineCompany EXCEPT !.abn = a, !.main = m, !.legal = l] :
        a \in {<<>>, LineCompany.abn},
        m \in {<<>>} \cup {<<[LineCompany.main[1] EXCEPT !.postcode = p]>> :
                              p \in PostcodeTexts},
        l \in {<<>>} \cup {<<[LineTrader.legal[1] EXCEPT !.postcode = p,
                                                         !.given = g]>> :
                              p \in PostcodeTexts, g \in {<<>>, <<"JO">>}}}

InitNormalize ==
    /\ AtRest
    /\ fnIn \in {[fn |-> "generate_bulk_insert", arg |-> f] : f \in NormalizeInputs}
    /\ fnOut = <<>>

ApplyGenerateBulkInsert ==
    /\ fnOut = <<>>
    /\ fnIn.fn = "generate_bulk_insert"
    /\ fnOut' = <<generate_bulk_insert(fnIn.arg)>>
    /\ UNCHANGED <<fnIn, pipelineVars>>

NextNormalize == ApplyGenerateBulkInsert

SpecNormalize == InitNormalize /\ [][NextNormalize]_vars

-----------------------------------------------------------------------------
(* Properties.                                                             *)

\* A row with a field that is neither 0 nor ''.
HasTruthyField(d) == \E k \in DOMAIN d : d[k] \notin {PyInt(0), PyStr("")}

\* C6: remove_duplicates returns a list without repeated entries whose
\* entries, as a set, are exactly the input entries that have at least one
\* truthy field: equal entries collapse to one, entries that differ in a
\* field are both kept, entries with only falsy fields are dropped, and
\* nothing is returned that was not given.
C6_DedupIsDistinctTruthyInput ==
    (fnOut # <<>> /\ fnIn.fn = "remove_duplicates") =>
        LET out == fnOut[1]
        IN  /\ Range(out) = {d \in Range(fnIn.arg) : HasTruthyField(d)}
            /\ \A i, j \in 1..Len(out) : out[i] = out[j] => i = j

\* C6 happens: a list with an entry twice, an entry that differs from it in
\* one field and an entry of falsy fields only has been deduplicated.
C6_Witness ==
    /\ fnOut # <<>>
    /\ fnIn.fn = "remove_duplicates"
    /\ Len(fnIn.arg) = 3
    /\ fnIn.arg[1] = fnIn.arg[2]
    /\ HasTruthyField(fnIn.arg[1])
    /\ ~HasTruthyField(fnIn.arg[3])
    /\ Len(fnOut[1]) = 1

\* A text that int() reads: decimal digits, spaces around them allowed.
NumericText(t) ==
    \E i, j \in 1..Len(t) :
        /\ i <= j
        /\ \A k \in 1..Len(t) :
               IF i <= k /\ k <= j
               THEN t[k] \in {"0", "1", "2", "3", "4", "5", "6", "7", "8", "9"}
               ELSE t[k] = " "

\* C7: for a fragment with its required fields and a MainEntity or
\* LegalEntity block whose postcode text is blank or not a number,
\* generate_bulk_insert returns without raising, and the row of that block
\* has postcode 0 and the type, name and state of the fragment (the name of
\* a LegalEntity being given name, space, family name).
C7_BadPostcodeIsZero ==
    (fnOut # <<>> /\ fnIn.fn = "generate_bulk_insert" /\ fnIn.arg.abn # <<>>) =>
        LET f == fnIn.arg
            r == fnOut[1]
        IN  /\ (f.main # <<>> /\ ~NumericText(f.main[1].postcode)) =>
                  /\ r.exc = ""
                  /\ r.ret["main_entity"] =
                         <<[abn_id |-> <<"int", 1>>,
                            main_entity_type |-> <<"str", f.main[1].type>>,
                            main_entity_name |-> <<"str", f.main[1].name>>,
                            address_state |-> <<"str", f.main[1].state>>,
                            address_postcode |-> <<"int", 0>>]>>
            /\ (f.legal # <<>> /\ ~NumericText(f.legal[1].postcode)) =>
                  /\ r.exc = ""
                  /\ r.ret["legal_entity"] =
                         <<[abn_id |-> <<"int", 1>>,
                            legal_entity_type |-> <<"str", f.legal[1].type>>,
                            legal_entity_name |->
                                <<"str", (IF f.legal[1].given = <<>> THEN ""
                                          ELSE f.legal[1].given[1])
                                         \o " " \o f.legal[1].family>>,
                            address_state |-> <<"str", f.legal[1].state>>,
                            address_postcode |-> <<"int", 0>>]>>

\* C7 happens: a fragment with a MainEntity block of blank postcode and a
\* LegalEntity block whose postcode holds a letter has been normalized.
C7_Witness ==
    /\ fnOut # <<>>
    /\ fnIn.fn = "generate_bulk_insert"
    /\ fnIn.arg.abn # <<>>
    /\ fnIn.arg.main # <<>>
    /\ fnIn.arg.main[1].postcode = <<>>
    /\ fnIn.arg.legal # <<>>
    /\ fnIn.arg.legal[1].postcode = <<"2", "a">>
    /\ fnOut[1].exc = ""

\* C1: the purge and the loads of a run are all-or-nothing: when a run has
\* ended and its purge or one of its loads failed, the store is the store
\* the run started with.
C1_FailedRunLeavesStore ==
    (RunEnded /\ (purgePc = "failed" \/ pfError.stage = "bulk_insert")) =>
        store = store0

\* C2: no row of a run is loaded before the purge of that run has completed,
\* and the purge removes no row loaded in its own run.
C2_PurgeBeforeLoads ==
    /\ Loaded => purgePc # "pending"
    /\ ~purged

\* C3: a fragment with an ABR element and a required field missing does not
\* end process_files: the run never fails in generate_bulk_insert.
C3_MissingFieldContained ==
    ~(pfPc = "failed" /\ pfError.stage = "generate_bulk_insert")

\* The files process_files has not finished with.
Unprocessed == todo \cup Range(cur)

\* C4: when bulk_insert fails, process_files ends failed; the file whose
\* batch failed and every file not yet reached are still in the directory,
\* with their content, and from then on the run scans, loads and deletes
\* nothing.
C4_FailedLoadKeepsFiles ==
    [][(pfPc' = "failed" /\ pfError'.stage = "bulk_insert" /\ run' = run) =>
          /\ \A f \in Unprocessed' :
                 f \in DOMAIN directory' /\ directory'[f] = archive[f]
          /\ pfPc = "failed" =>
                 UNCHANGED <<directory, todo, cur, lineNo, records, submitted,
                             issued, removed, pfError>>]_vars

\* C4 happens: a load has failed with one file in hand and another not yet
\* reached.
C4_Witness ==
    /\ pfPc = "failed"
    /\ pfError.stage = "bulk_insert"
    /\ cur # <<>>
    /\ todo # {}

\* C5: over a run, the dgr rows, and likewise the other_entity rows, handed
\* to bulk_insert are pairwise distinct.
C5_SubmittedRowsDistinct ==
    \A k \in {"dgr", "other_entity"} :
        \A i, j \in 1..Len(submitted) :
            \A p \in 1..Len(submitted[i][k]), q \in 1..Len(submitted[j][k]) :
                submitted[i][k][p] = submitted[j][k][q] => (i = j /\ p = q)

\* A file without a line that has an ABR element.
NoFragment(lines) == \A i \in 1..Len(lines) : ~lines[i].abr

C9_SecondRunSameStore ==
    (run = "second" /\ RunComplete /\ afterRun # <<>>) => store = afterRun[1]

\* C10: the INSERT statements of every load are issued in the order abn,
\* main_entity, legal_entity, asic_number, gst, dgr, other_entity, one per
\* table: what a load has issued is a prefix of that list, the whole list
\* when the load committed.
C10_ParentBeforeChildren ==
    LET order == <<"abn", "main_entity", "legal_entity", "asic_number", "gst",
                   "dgr", "other_entity">>
    IN  \A i \in 1..Len(issued) :
            /\ Len(issued[i].kinds) <= Len(order)
            /\ issued[i].kinds = SubSeq(order, 1, Len(issued[i].kinds))
            /\ issued[i].exc = "" => issued[i].kinds = order

\* C10 happens: a load with rows for the parent and for dependent tables has
\* committed.
C10_Witness ==
    \E i \in 1..Len(issued) :
        /\ issued[i].exc = ""
        /\ submitted[i]["abn"] # <<>>
        /\ submitted[i]["main_entity"] # <<>>
        /\ submitted[i]["dgr"] # <<>>
        /\ store["dgr"] # {}

\* The record lines of the archive, over all its files.
RecordLines ==
    {<<f, i>> \in FileNames \X (1..MaxLines) :
        f \in DOMAIN archive /\ i <= Len(archive[f]) /\ archive[f][i].abr}

\* C11: in a run, loading begins only when every file of the directory has
\* been scanned and normalized, every table is bulk-inserted once, and the
\* batch of that one load holds the records of all the files: no file is
\* left to reach when a load has been made, a run makes one load at most,
\* and its abn batch has a row for every record line of the archive.
C11_OneLoadAfterAllFiles ==
    /\ issued # <<>> => todo = {}
    /\ Len(issued) <= 1
    /\ issued # <<>> => Len(submitted[1]["abn"]) = Cardinality(RecordLines)

====
